---- MODULE Spec2Model ----
(***************************************************************************)
(* TFACollector (src/collector.py): a daemon thread polls the vendor API   *)
(* at a paced interval and stores the last measurement of every device in  *)
(* a dict shared with the scrape handler's collect().                      *)
(*                                                                         *)
(* Times are seconds.  datetime.now() reads the variable clock, which never *)
(* runs backwards.  A thread switch may fall between any two actions.       *)
(* The variables marked history record what has happened; no action's guard *)
(* or effect on the program's state reads them.                             *)
(***************************************************************************)
EXTENDS Integers, Sequences, FiniteSets, TLC

\* ---------------------------------------------------------------- bounds
MaxThreads == 2      \* threads start() may launch in the explored runs
PacingTicks == 40    \* horizon of SpecPacing, in ticks of sleep(15)
CacheTicks == 3      \* horizon of SpecCache and SpecLifecycle, in ticks of one interval
ScrapeTicks == 1     \* horizon of Spec, in ticks of one interval
MaxValue == 2        \* number of distinct measurements the vendor reports
MaxDevices == 2      \* longest "devices" array of a response in SpecCache
ScrapeDevices == 1   \* longest "devices" array of a response in Spec
MaxArgLen == 2       \* longest phone_id and longest sensor_ids Settings(...) is given

\* ------------------------------------------------------ program constants
interval == 60           \* timedelta(minutes=1)
SleepSeconds == 15       \* sleep(15)
BackoffMinutes == 8      \* timedelta(minutes=8)
DatetimeMin == 0         \* datetime.min
StatusOk == 200
StatusRateLimited == 429
StatusOther == 500       \* any status other than 200 and 429

\* the value of an attribute or local that is not bound yet
Unset == -1
\* device["measurement"]["h"] when the key is absent
KeyMissing == -2
\* the process starts long after datetime.min + interval
ProcessStart == 900

Threads == 1..MaxThreads

\* settings.sensor_ids
sensor_ids == <<"A", "B">>

Range(s) == {s[i] : i \in 1..Len(s)}

\* measurement objects of a response: poll value v reports t1 = v, h = 10 v,
\* so that the two fields of one measurement are recognisable as a pair
Measurements == {[t1 |-> v, h |-> 10 * v] : v \in 1..MaxValue}
\* the device objects a response may list for the ids in ids: well-formed ones,
\* and one whose measurement lacks "h"
DevicesOf(ids) ==
    {[deviceid |-> d, t1 |-> m.t1, h |-> m.h] : d \in ids, m \in Measurements}
      \cup {[deviceid |-> sensor_ids[1], t1 |-> 1, h |-> KeyMissing]}

SeqsUpTo(S, n) == UNION {[1..k -> S] : k \in 0..n}

\* a device id that is not in settings.sensor_ids
UnrequestedId == "Z"

\* response bodies: json() fails (parses = FALSE) or returns {"devices": [...]}
BodiesOf(ids, n) ==
    {[parses |-> FALSE, devices |-> << >>]}
      \cup {[parses |-> TRUE, devices |-> ds] : ds \in SeqsUpTo(DevicesOf(ids), n)}

\* the vendor answers for the requested devices
Bodies == BodiesOf(Range(sensor_ids), MaxDevices)

ScrapeBodies == BodiesOf(Range(sensor_ids), ScrapeDevices)

\* the bodies of the pacing specifications: no JSON, no device, one device
PacingBodies == BodiesOf({sensor_ids[1]}, 1)

\* the vendor answers for any device, requested or not
UnrequestedBodies == BodiesOf(Range(sensor_ids) \cup {UnrequestedId}, 1)

VARIABLES
    clock,               \* wall clock, what datetime.now() returns
    running,             \* self.running
    last_request_time,   \* self.last_request_time
    last_measurement,    \* the dict, as its entries in insertion order
    pc,                  \* pc[t]: where thread t stands in __fetch_measurements
    now,                 \* now[t]: the local now of the iteration
    wake,                \* wake[t]: when sleep(15) returns
    status,              \* status[t]: response.status_code of the iteration
    devices,             \* devices[t]: the list being stored
    idx,                 \* idx[t]: position of the for loop in devices
    logged,              \* logged[t]: what the iteration logged
    before,              \* history: before[t], the dict when the request was issued
    changed,             \* history: changed[t], the iteration has changed the dict
    args,                \* the phone_id and sensor_ids Settings(...) is called with
    settings,            \* the Settings object, or the ValueError raised instead
    since_stop,          \* history: seconds since the stop() no start() has
                         \* followed, counted up to two sleeps
    latest_request,      \* history: timestamp of the latest request issued
    last_429,            \* history: clock at the 429 no request has followed yet
    rpc,                 \* where collect() stands
    rsize,               \* dict size the items() iterator was created with
    ridx,                \* position of the items() iterator
    temp_gauge,          \* samples added to tfa_sensor_temperature
    humidity_gauge,      \* samples added to tfa_sensor_humidity
    yielded,             \* the gauge families collect() has yielded
    snaps                \* history: the values the dict had during the collect()
                         \* call that agree with the samples added so far

vars == <<clock, running, last_request_time, last_measurement, pc, now, wake,
          status, devices, idx, logged, before, changed, args, settings, since_stop,
          latest_request, last_429, rpc, rsize, ridx, temp_gauge, humidity_gauge,
          yielded, snaps>>

mainVars == <<args, settings>>
pollerVars == <<pc, now, wake, status, devices, idx, logged, before, changed>>
readerVars == <<rpc, rsize, ridx, temp_gauge, humidity_gauge, yielded>>

\* ------------------------------------------------------------- Settings
\* Falsy with a fault: nothing counts as empty
FalsyNever(x) == FALSE

\* not x, for a str (its characters), a list or a dict (its items)
Falsy(x) == Len(x) = 0

\* the phone_id strings and the sensor_ids lists of the settings file
PhoneIdArgs == SeqsUpTo({"1", "2"}, MaxArgLen)
SensorIdArgs == SeqsUpTo(Range(sensor_ids) \cup {""}, MaxArgLen)

\* no Settings object: the constructor has not run, or it raised
NoSettings(error) ==
    [exists |-> FALSE, raised |-> error, phone_id |-> << >>, sensor_ids |-> << >>]

\* Settings.__init__ with a fault: sensor_ids is not validated
SettingsInitPhoneOnly(phone_id, ids) ==
    IF Falsy(phone_id)
    THEN NoSettings("ValueError: phone_id needs to be defined in settings")
    ELSE [exists |-> TRUE, raised |-> "", phone_id |-> phone_id, sensor_ids |-> ids]

\* Settings.__init__: lines 18-25
SettingsInit(phone_id, ids) ==
    IF Falsy(phone_id)
    THEN NoSettings("ValueError: phone_id needs to be defined in settings")
    ELSE IF Falsy(ids)
    THEN NoSettings("ValueError: sensor_ids need to be defined in settings")
    ELSE [exists |-> TRUE, raised |-> "", phone_id |-> phone_id, sensor_ids |-> ids]

\* the settings file of the explored runs of the collector
FileArgs == [phone_id |-> <<"1">>, sensor_ids |-> sensor_ids]

\* ------------------------------------------------------------- the dict
Keys(d) == {d[i].deviceid : i \in 1..Len(d)}

IndexOf(d, k) == CHOOSE i \in 1..Len(d) : d[i].deviceid = k

Get(d, k) == d[IndexOf(d, k)]

Entry(device) ==
    [deviceid |-> device.deviceid, temperature |-> device.t1, humidity |-> device.h]

\* Put with a fault: an existing entry is merged field by field and only the
\* temperature is taken over
PutMerged(d, device) ==
    IF device.deviceid \in Keys(d)
    THEN [d EXCEPT ![IndexOf(d, device.deviceid)].temperature = device.t1]
    ELSE Append(d, Entry(device))

\* Put with a fault: an existing entry is kept (setdefault instead of a store)
PutIfAbsent(d, device) ==
    IF device.deviceid \in Keys(d) THEN d ELSE Append(d, Entry(device))

\* Put with a fault: the dict is rebuilt from the device, the other entries go
PutAlone(d, device) == <<Entry(device)>>

\* self.last_measurement[device["deviceid"]] = {...}: one store of a new dict;
\* an existing key keeps its position, a new key is appended
Put(d, device) ==
    IF device.deviceid \in Keys(d)
    THEN [d EXCEPT ![IndexOf(d, device.deviceid)] = Entry(device)]
    ELSE Append(d, Entry(device))

\* building the dict literal raises KeyError when a key is absent
Malformed(device) == device.h = KeyMissing

\* ------------------------------------------------------------ the pacing
\* MustWait with a fault: the interval is left out of the comparison
MustWaitNoInterval(lrt, n) == lrt > n

\* self.last_request_time + self.interval > now
MustWait(lrt, n) == lrt + interval > n

\* BackoffUntil with a fault: timedelta(seconds=8)
BackoffSeconds(n) == n + BackoffMinutes

\* datetime.now() + timedelta(minutes=8)
BackoffUntil(n) == n + BackoffMinutes * 60

\* Discarded with a fault: the comparison is inverted
DiscardedInverted(code) == code = StatusOk

\* response.status_code != 200
Discarded(code) == code # StatusOk

\* the dict value d has the samples of the two gauges as its first entries
Agrees(d, temps, hums) ==
    /\ Len(d) >= Len(temps)
    /\ \A i \in 1..Len(temps) :
          /\ temps[i] = <<d[i].deviceid, d[i].temperature>>
          /\ hums[i] = <<d[i].deviceid, d[i].humidity>>

\* the dict takes the value d while collect() iterates
Track(d) ==
    IF rpc = "iter" /\ Agrees(d, temp_gauge, humidity_gauge)
    THEN snaps \cup {d}
    ELSE snaps

\* the collector as constructed (lines 41-51), not started
Constructed ==
    /\ clock = ProcessStart
    /\ running = FALSE
    /\ last_request_time = Unset
    /\ last_measurement = << >>
    /\ pc = [t \in Threads |-> "unborn"]
    /\ now = [t \in Threads |-> Unset]
    /\ wake = [t \in Threads |-> Unset]
    /\ status = [t \in Threads |-> Unset]
    /\ devices = [t \in Threads |-> << >>]
    /\ idx = [t \in Threads |-> 0]
    /\ logged = [t \in Threads |-> "none"]
    /\ before = [t \in Threads |-> << >>]
    /\ changed = [t \in Threads |-> FALSE]
    /\ since_stop = Unset
    /\ latest_request = Unset
    /\ last_429 = Unset
    /\ rpc = "idle"
    /\ rsize = 0
    /\ ridx = 0
    /\ temp_gauge = << >>
    /\ humidity_gauge = << >>
    /\ yielded = << >>
    /\ snaps = {}

\* main(): the settings are loaded and the collector is constructed with them
Init ==
    /\ args = FileArgs
    /\ settings = SettingsInit(args.phone_id, args.sensor_ids)
    /\ Constructed

\* a settings file with any phone_id and sensor_ids, Settings(...) not called yet
InitSettings ==
    /\ args \in [phone_id : PhoneIdArgs, sensor_ids : SensorIdArgs]
    /\ settings = NoSettings("")
    /\ Constructed

\* Settings(**settings_dict): line 135
Construct ==
    /\ ~settings.exists
    /\ settings.raised = ""
    /\ settings' = SettingsInit(args.phone_id, args.sensor_ids)
    /\ UNCHANGED <<clock, running, last_request_time, last_measurement, pollerVars,
                   args, since_stop, latest_request, last_429, readerVars, snaps>>

\* time passes: step seconds, up to ticks steps after the process started
Tick(step, ticks) ==
    /\ clock + step <= ProcessStart + ticks * step
    /\ clock' = clock + step
    /\ since_stop' = IF since_stop = Unset THEN Unset
                     ELSE IF since_stop + step > 2 * SleepSeconds THEN 2 * SleepSeconds
                     ELSE since_stop + step
    /\ UNCHANGED <<running, last_request_time, last_measurement, pollerVars,
                   mainVars, latest_request, last_429, readerVars, snaps>>

TickSleep == Tick(SleepSeconds, PacingTicks)

TickInterval == Tick(interval, CacheTicks)

TickScrape == Tick(interval, ScrapeTicks)

\* Launch with a fault: last_request_time starts at datetime.now()
LaunchFromNow(t) ==
    /\ pc[t] = "unborn"
    /\ \A u \in Threads : u < t => pc[u] # "unborn"
    /\ last_request_time' = clock
    /\ running' = TRUE
    /\ pc' = [pc EXCEPT ![t] = "top"]
    /\ since_stop' = Unset
    /\ UNCHANGED <<clock, last_measurement, now, wake, status, devices, idx, logged,
                   before, changed, mainVars, latest_request, last_429, readerVars,
                   snaps>>

\* start(): lines 54-58
Launch(t) ==
    /\ pc[t] = "unborn"
    /\ \A u \in Threads : u < t => pc[u] # "unborn"
    /\ last_request_time' = DatetimeMin
    /\ running' = TRUE
    /\ pc' = [pc EXCEPT ![t] = "top"]
    /\ since_stop' = Unset
    /\ UNCHANGED <<clock, last_measurement, now, wake, status, devices, idx, logged,
                   before, changed, mainVars, latest_request, last_429, readerVars, snaps>>

\* the program's single start() (line 145)
start == \E t \in Threads : (\A u \in Threads : pc[u] = "unborn") /\ Launch(t)

\* start() called again by a client of the class
restart == \E t \in Threads : (\E u \in Threads : pc[u] # "unborn") /\ Launch(t)

\* stop(): lines 61-62
stop ==
    /\ running
    /\ running' = FALSE
    /\ since_stop' = 0
    /\ UNCHANGED <<clock, last_request_time, last_measurement, pollerVars,
                   mainVars, latest_request, last_429, readerVars, snaps>>

\* LoopTop with a fault: while True
LoopTopForever(t) ==
    /\ pc[t] = "top"
    /\ pc' = [pc EXCEPT ![t] = "paced"]
    /\ now' = [now EXCEPT ![t] = clock]
    /\ status' = [status EXCEPT ![t] = Unset]
    /\ logged' = [logged EXCEPT ![t] = "none"]
    /\ changed' = [changed EXCEPT ![t] = FALSE]
    /\ UNCHANGED <<clock, running, last_request_time, last_measurement, wake,
                   devices, idx, before, mainVars, since_stop, latest_request,
                   last_429, readerVars, snaps>>

\* while self.running: now = datetime.now()   (lines 81-82)
LoopTop(t) ==
    /\ pc[t] = "top"
    /\ IF running
       THEN /\ pc' = [pc EXCEPT ![t] = "paced"]
            /\ now' = [now EXCEPT ![t] = clock]
       ELSE /\ pc' = [pc EXCEPT ![t] = "exited"]
            /\ now' = [now EXCEPT ![t] = Unset]
    /\ status' = [status EXCEPT ![t] = Unset]
    /\ logged' = [logged EXCEPT ![t] = "none"]
    /\ changed' = [changed EXCEPT ![t] = FALSE]
    /\ UNCHANGED <<clock, running, last_request_time, last_measurement, wake,
                   devices, idx, before, mainVars, since_stop, latest_request, last_429, readerVars, snaps>>

\* if self.last_request_time + self.interval > now: sleep(15); continue  (84-86)
PaceCheck(t) ==
    /\ pc[t] = "paced"
    /\ IF MustWait(last_request_time, now[t])
       THEN /\ pc' = [pc EXCEPT ![t] = "sleeping"]
            /\ wake' = [wake EXCEPT ![t] = clock + SleepSeconds]
            /\ now' = [now EXCEPT ![t] = Unset]
       ELSE /\ pc' = [pc EXCEPT ![t] = "stamp"]
            /\ UNCHANGED <<wake, now>>
    /\ UNCHANGED <<clock, running, last_request_time, last_measurement, status,
                   devices, idx, logged, before, changed, mainVars, since_stop, latest_request, last_429,
                   readerVars, snaps>>

\* sleep(15) returns
Wake(t) ==
    /\ pc[t] = "sleeping"
    /\ clock >= wake[t]
    /\ pc' = [pc EXCEPT ![t] = "top"]
    /\ wake' = [wake EXCEPT ![t] = Unset]
    /\ UNCHANGED <<clock, running, last_request_time, last_measurement, now, status,
                   devices, idx, logged, before, changed, mainVars, since_stop, latest_request, last_429,
                   readerVars, snaps>>

\* IssueRequest with a fault: line 88 is missing, the timestamp is not stored
\* before the call
IssueRequestUnstamped(t) ==
    /\ pc[t] = "stamp"
    /\ latest_request' = now[t]
    /\ last_429' = Unset
    /\ pc' = [pc EXCEPT ![t] = "request"]
    /\ before' = [before EXCEPT ![t] = last_measurement]
    /\ UNCHANGED <<clock, running, last_request_time, last_measurement, now, wake,
                   status, devices, idx, logged, changed, mainVars, since_stop,
                   readerVars, snaps>>

\* self.last_request_time = now; requests.post(...) is called   (lines 88-96)
IssueRequest(t) ==
    /\ pc[t] = "stamp"
    /\ last_request_time' = now[t]
    /\ latest_request' = now[t]
    /\ last_429' = Unset
    /\ pc' = [pc EXCEPT ![t] = "request"]
    /\ before' = [before EXCEPT ![t] = last_measurement]
    /\ UNCHANGED <<clock, running, last_measurement, now, wake, status, devices, idx,
                   logged, changed, mainVars, since_stop, readerVars, snaps>>

\* the iteration is over: back to the while, the locals are dead
EndIteration(t, record) ==
    /\ pc' = [pc EXCEPT ![t] = "top"]
    /\ logged' = [logged EXCEPT ![t] = record]
    /\ now' = [now EXCEPT ![t] = Unset]
    /\ devices' = [devices EXCEPT ![t] = << >>]
    /\ idx' = [idx EXCEPT ![t] = 0]
    /\ before' = [before EXCEPT ![t] = << >>]

\* requests.post raises the builtin ConnectionError: the handler of lines 115-116
\* passes exec_info to logging.error, which raises TypeError inside the handler;
\* nothing catches it and the thread ends
PostRaisesConnectionError(t) ==
    /\ pc[t] = "request"
    /\ pc' = [pc EXCEPT ![t] = "crashed"]
    /\ now' = [now EXCEPT ![t] = Unset]
    /\ before' = [before EXCEPT ![t] = << >>]
    /\ UNCHANGED <<clock, running, last_request_time, last_measurement, wake, status,
                   devices, idx, logged, changed, mainVars, since_stop, latest_request, last_429, readerVars,
                   snaps>>

\* requests.post raises any other exception: logged at lines 117-118
PostRaises(t) ==
    /\ pc[t] = "request"
    /\ EndIteration(t, "unhandled")
    /\ UNCHANGED <<clock, running, last_request_time, last_measurement, wake, status,
                   changed, mainVars, since_stop, latest_request, last_429, readerVars, snaps>>

\* ratelimit_backoff(): lines 121-124
ratelimit_backoff ==
    /\ last_request_time' = BackoffUntil(clock)
    /\ last_429' = clock

\* the response arrives with one of bodies: lines 96-106
Respond(t, bodies) ==
    /\ pc[t] = "request"
    /\ \E code \in {StatusOk, StatusRateLimited, StatusOther}, body \in bodies :
         /\ status' = [status EXCEPT ![t] = code]
         /\ IF code = StatusRateLimited
            THEN /\ ratelimit_backoff
                 /\ EndIteration(t, "ratelimit")
            ELSE /\ UNCHANGED <<last_request_time, last_429>>
                 /\ IF Discarded(code)
                    THEN EndIteration(t, "status")
                    ELSE IF ~body.parses
                    THEN EndIteration(t, "unhandled")
                    ELSE /\ pc' = [pc EXCEPT ![t] = "store"]
                         /\ devices' = [devices EXCEPT ![t] = body.devices]
                         /\ idx' = [idx EXCEPT ![t] = 1]
                         /\ UNCHANGED <<now, logged, before>>
    /\ UNCHANGED <<clock, running, last_measurement, wake, changed, mainVars, since_stop, latest_request,
                   readerVars, snaps>>

\* one pass of the for loop of lines 108-112, or its end (line 114)
StoreDevice(t) ==
    /\ pc[t] = "store"
    /\ IF idx[t] > Len(devices[t])
       THEN /\ EndIteration(t, "info")
            /\ UNCHANGED <<last_measurement, changed, snaps>>
       ELSE IF Malformed(devices[t][idx[t]])
       THEN /\ EndIteration(t, "unhandled")
            /\ UNCHANGED <<last_measurement, changed, snaps>>
       ELSE /\ last_measurement' = Put(last_measurement, devices[t][idx[t]])
            /\ changed' = [changed EXCEPT ![t] = last_measurement' # before[t]]
            /\ snaps' = Track(last_measurement')
            /\ idx' = [idx EXCEPT ![t] = idx[t] + 1]
            /\ UNCHANGED <<pc, now, devices, logged, before>>
    /\ UNCHANGED <<clock, running, last_request_time, wake, status,
                   mainVars, since_stop, latest_request, last_429, readerVars>>

\* ------------------------------------------------------------- collect()
\* CollectBegin with a fault: the scrape forces the next poll by resetting the
\* pacing
CollectBeginRefreshing ==
    /\ rpc = "idle"
    /\ last_request_time' = DatetimeMin
    /\ IF Falsy(last_measurement)
       THEN /\ rpc' = "returned"
            /\ UNCHANGED <<rsize, ridx, snaps>>
       ELSE /\ rpc' = "iter"
            /\ rsize' = Len(last_measurement)
            /\ ridx' = 1
            /\ snaps' = {last_measurement}
    /\ UNCHANGED <<clock, running, last_measurement, pollerVars, mainVars,
                   since_stop, latest_request, last_429, temp_gauge, humidity_gauge,
                   yielded>>

\* lines 66-72: return at once on an empty dict, else create the two gauges and
\* the items() iterator, which remembers the dict's size
CollectBegin ==
    /\ rpc = "idle"
    /\ IF Falsy(last_measurement)
       THEN /\ rpc' = "returned"
            /\ UNCHANGED <<rsize, ridx, snaps>>
       ELSE /\ rpc' = "iter"
            /\ rsize' = Len(last_measurement)
            /\ ridx' = 1
            /\ snaps' = {last_measurement}
    /\ UNCHANGED <<clock, running, last_request_time, last_measurement, pollerVars,
                   mainVars, since_stop, latest_request, last_429, temp_gauge, humidity_gauge, yielded>>

\* lines 72-77: the iterator's next() raises RuntimeError when the dict changed
\* size, ends the loop after the last entry (the gauges are yielded), or gives
\* the next entry, whose two fields are added to the gauges.  measurement is a
\* reference to the stored dict, which no code mutates after line 109 stored
\* it, so the two reads of lines 73-74 see the value the entry had at next()
CollectNext ==
    /\ rpc = "iter"
    /\ IF Len(last_measurement) # rsize
       THEN /\ rpc' = "raised"
            /\ UNCHANGED <<ridx, temp_gauge, humidity_gauge, yielded>>
       ELSE IF ridx > rsize
       THEN /\ rpc' = "returned"
            /\ yielded' = <<"tfa_sensor_temperature", "tfa_sensor_humidity">>
            /\ UNCHANGED <<ridx, temp_gauge, humidity_gauge>>
       ELSE /\ temp_gauge' = Append(temp_gauge,
                  <<last_measurement[ridx].deviceid, last_measurement[ridx].temperature>>)
            /\ humidity_gauge' = Append(humidity_gauge,
                  <<last_measurement[ridx].deviceid, last_measurement[ridx].humidity>>)
            /\ ridx' = ridx + 1
            /\ UNCHANGED <<rpc, yielded>>
    /\ snaps' = {d \in snaps : Agrees(d, temp_gauge', humidity_gauge')}
    /\ UNCHANGED <<clock, running, last_request_time, last_measurement, pollerVars,
                   mainVars, since_stop, latest_request, last_429, rsize>>

\* the scrape is answered (or has failed); the next one may come
CollectEnd ==
    /\ rpc \in {"returned", "raised"}
    /\ rpc' = "idle"
    /\ rsize' = 0
    /\ ridx' = 0
    /\ temp_gauge' = << >>
    /\ humidity_gauge' = << >>
    /\ yielded' = << >>
    /\ snaps' = {}
    /\ UNCHANGED <<clock, running, last_request_time, last_measurement, pollerVars,
                   mainVars, since_stop, latest_request, last_429>>

\* ------------------------------------------------------- specifications
Poller(t, bodies) ==
    \/ LoopTop(t)
    \/ PaceCheck(t)
    \/ Wake(t)
    \/ IssueRequest(t)
    \/ PostRaisesConnectionError(t)
    \/ PostRaises(t)
    \/ Respond(t, bodies)
    \/ StoreDevice(t)

\* The specifications are the same program under different bounds of its
\* environment (how far time runs, what the vendor answers, who calls).

\* the program as __main__ runs it: one start(), scrapes at any time
Next ==
    \/ start
    \/ stop
    \/ TickScrape
    \/ \E t \in Threads : Poller(t, ScrapeBodies)
    \/ CollectBegin
    \/ CollectNext
    \/ CollectEnd

Spec == Init /\ [][Next]_vars

\* the poller alone, with longer responses
NextCache ==
    \/ start
    \/ stop
    \/ TickInterval
    \/ \E t \in Threads : Poller(t, Bodies)

SpecCache == Init /\ [][NextCache]_vars

\* the poller alone over a long horizon, in steps of the sleep quantum
NextPacing ==
    \/ start
    \/ stop
    \/ TickSleep
    \/ \E t \in Threads : Poller(t, PacingBodies)

SpecPacing == Init /\ [][NextPacing]_vars

\* a client of the class calling start() and stop() in any order
NextLifecycle ==
    \/ start
    \/ restart
    \/ stop
    \/ TickInterval
    \/ \E t \in Threads : Poller(t, PacingBodies)

SpecLifecycle == Init /\ [][NextLifecycle]_vars

\* the poller alone, answered with devices of any id
NextUnrequested ==
    \/ start
    \/ stop
    \/ TickInterval
    \/ \E t \in Threads : Poller(t, UnrequestedBodies)

SpecUnrequested == Init /\ [][NextUnrequested]_vars

\* Time passes only while every live thread is blocked, in sleep(15) or in
\* requests.post, and not beyond the end of a sleep: the statements between
\* two blocking calls take no time and sleep(15) returns when it is due.
TickTimed ==
    /\ \A t \in Threads :
          \/ pc[t] \in {"unborn", "exited", "crashed", "request"}
          \/ pc[t] = "sleeping" /\ clock + SleepSeconds <= wake[t]
    /\ TickSleep

\* the poller alone under that timing
NextTimed ==
    \/ start
    \/ stop
    \/ TickTimed
    \/ \E t \in Threads : Poller(t, PacingBodies)

SpecTimed == Init /\ [][NextTimed]_vars

\* Settings(...) called with any phone_id and sensor_ids
NextSettings == Construct

SpecSettings == InitSettings /\ [][NextSettings]_vars

\* ------------------------------------------------------------ the claims
\* the for loop of lines 108-112 has stored the whole list of thread t
Stored(t) == pc[t] = "store" /\ idx[t] > Len(devices[t])

DeviceIdsOf(ds) == {ds[i].deviceid : i \in 1..Len(ds)}

\* C1: a thread that has passed the idle-wait check and is about to issue a
\* request holds a timestamp at least one interval after the timestamp of the
\* request issued before it, whatever that request's outcome was.
C1_RequestsOneIntervalApart ==
    \A t \in Threads :
        (pc[t] = "stamp" /\ latest_request # Unset)
            => now[t] >= latest_request + 60

\* a second request is about to be issued exactly one interval after the first
C1_Witness ==
    \E t \in Threads :
        pc[t] = "stamp" /\ latest_request # Unset /\ now[t] = latest_request + 60

\* C2: after a 429 handled at time T, lastRequestTime is T + 8 minutes until the
\* next request, and the thread about to issue that request holds a timestamp
\* of at least T + 8 minutes.
C2_BackoffEightMinutes ==
    last_429 # Unset =>
        /\ last_request_time = last_429 + 8 * 60
        /\ \A t \in Threads : pc[t] = "stamp" => now[t] >= last_429 + 8 * 60

\* the first request after a backoff is about to be issued
C2_Witness ==
    \E t \in Threads : pc[t] = "stamp" /\ last_429 # Unset

\* C3: collect() never fails, and the samples it yields are the dict's entries
\* at one instant of the call.
C3_SnapshotConsistent ==
    /\ rpc # "raised"
    /\ (rpc = "returned" /\ Len(yielded) > 0) =>
           \E d \in snaps : Len(d) = Len(temp_gauge)

\* C4: the temperature and the humidity collect() reads for a sensor are the
\* two fields of one measurement of a response, never of two.
C4_WholeReading ==
    /\ Len(temp_gauge) = Len(humidity_gauge)
    /\ \A i \in 1..Len(temp_gauge) :
          /\ temp_gauge[i][1] = humidity_gauge[i][1]
          /\ \E m \in Measurements :
                temp_gauge[i][2] = m.t1 /\ humidity_gauge[i][2] = m.h

\* collect() holds the sample of an entry the poller has overwritten since
C4_Witness ==
    /\ rpc = "iter"
    /\ Len(temp_gauge) = 1
    /\ last_measurement[1].temperature # temp_gauge[1][2]

\* C5: no exception of a poll iteration ends the thread.
C5_LoopSurvives == \A t \in Threads : pc[t] # "crashed"

\* C6: an iteration that ended in an exception has left the dict as it was.
C6_ExceptionNoOp ==
    \A t \in Threads : logged[t] = "unhandled" => ~changed[t]

\* C7: an iteration whose response status is not 200 does not reach the for
\* loop and leaves the dict as it was.
C7_Non200NoOp ==
    \A t \in Threads :
        status[t] \notin {Unset, 200} => (pc[t] # "store" /\ ~changed[t])

\* a 500 has been handled while the dict holds a reading
C7_Witness ==
    \E t \in Threads : status[t] = 500 /\ pc[t] = "top" /\ Len(last_measurement) > 0

\* C8: lastRequestTime never decreases.
C8_NeverDecreases == [][last_request_time' >= last_request_time]_vars

\* C9 as stated: once the list of a 200 response is stored, every device of
\* the list is in the dict with its own t1 and h.
C9_EveryDevice ==
    \A t \in Threads : Stored(t) =>
        \A i \in 1..Len(devices[t]) :
            /\ devices[t][i].deviceid \in Keys(last_measurement)
            /\ Get(last_measurement, devices[t][i].deviceid).temperature
                   = devices[t][i].t1
            /\ Get(last_measurement, devices[t][i].deviceid).humidity
                   = devices[t][i].h

\* C9 amended: once the list of a 200 response is stored, the dict has one entry
\* for every device id of the list, with the t1 and h of the last device of the
\* list that has this id.
C9_LastDevice ==
    /\ \A i, j \in 1..Len(last_measurement) :
           last_measurement[i].deviceid = last_measurement[j].deviceid => i = j
    /\ \A t \in Threads : Stored(t) =>
        \A i \in 1..Len(devices[t]) :
            (\A j \in (i + 1)..Len(devices[t]) :
                 devices[t][j].deviceid # devices[t][i].deviceid)
            => /\ devices[t][i].deviceid \in Keys(last_measurement)
               /\ Get(last_measurement, devices[t][i].deviceid).temperature
                      = devices[t][i].t1
               /\ Get(last_measurement, devices[t][i].deviceid).humidity
                      = devices[t][i].h

\* a stored list with two devices of one id and different measurements, whose
\* id had an entry before
C9_Witness ==
    \E t \in Threads :
        /\ Stored(t)
        /\ Len(devices[t]) = 2
        /\ devices[t][1].deviceid = devices[t][2].deviceid
        /\ devices[t][1].t1 # devices[t][2].t1
        /\ devices[t][1].deviceid \in Keys(before[t])

\* C10: no step removes an entry, and a step adds or changes the entry of a
\* sensor only when a thread is storing a 200 response that lists the sensor.
C10_LastKnownValue ==
    [][/\ \A k \in Keys(last_measurement) : k \in Keys(last_measurement')
       /\ \A k \in Keys(last_measurement') :
             (k \notin Keys(last_measurement)
                 \/ Get(last_measurement', k) # Get(last_measurement, k))
             => \E t \in Threads :
                    /\ pc[t] = "store"
                    /\ status[t] = 200
                    /\ k \in DeviceIdsOf(devices[t])]_vars

\* a poll has changed the dict and a sensor its response does not list still
\* has its entry
C10_Witness ==
    \E t \in Threads :
        /\ Stored(t)
        /\ changed[t]
        /\ \E k \in Keys(last_measurement) :
              /\ k \notin DeviceIdsOf(devices[t])
              /\ k \in Keys(before[t])
              /\ Get(last_measurement, k) = Get(before[t], k)

\* C11: the keys of the dict are ids of settings.sensor_ids, whatever device
\* ids the vendor's responses list.
C11_KeysConfigured == Keys(last_measurement) \subseteq Range(sensor_ids)

\* C12: more than one sleep(15) after stop(), every thread has left its loop.
C12_ExitsWithinQuantum ==
    since_stop > SleepSeconds
        => \A t \in Threads : pc[t] \in {"unborn", "exited", "crashed"}

\* C12, amended: more than one sleep(15) after stop(), no thread is in the
\* idle-wait or starts an iteration; a thread that has not left its loop is
\* waiting for requests.post to return, or is handling the response on its way
\* to the while, where it leaves.
C12_ExitsAfterRequest ==
    since_stop > SleepSeconds
        => \A t \in Threads : pc[t] \notin {"sleeping", "paced", "stamp"}

\* a thread that slept through stop() is back at the while one sleep later,
\* about to read running = False
C12_Witness ==
    \E t \in Threads :
        /\ pc[t] = "top"
        /\ ~running
        /\ since_stop = SleepSeconds
        /\ status[t] = Unset
        /\ latest_request # Unset

\* C13: while running stays true, a thread is in its loop after an iteration
\* that failed, whatever the failure was (429, another status, a connection
\* failure, any other exception): it has not ended, so that it issues its next
\* request when the pacing allows it.
C13_SelfHealing ==
    running => \A t \in Threads : pc[t] \in {"unborn", "top", "paced", "sleeping",
                                               "stamp", "request", "store"}

\* C14: a collect() that found the dict empty returns without yielding a gauge
\* family and without a sample.
C14_EmptyYieldsNothing ==
    (rpc = "returned" /\ (rsize = 0 \/ Len(last_measurement) = 0))
        => (yielded = << >> /\ temp_gauge = << >> /\ humidity_gauge = << >>)

\* a scrape of the started collector has returned while no poll has stored
C14_Witness ==
    /\ rpc = "returned"
    /\ last_measurement = << >>
    /\ \E t \in Threads : pc[t] = "request"

\* C15: a collect() that found rsize entries in the dict ends by yielding the
\* two families; the temperature family has one sample for each of these
\* entries, labelled with the entry's device id, and the humidity family has
\* one for each of them that holds a humidity.
C15_SampleForEveryEntry ==
    (rpc \in {"returned", "raised"} /\ rsize > 0) =>
        /\ yielded = <<"tfa_sensor_temperature", "tfa_sensor_humidity">>
        /\ Len(temp_gauge) = rsize
        /\ \A i \in 1..rsize :
              /\ temp_gauge[i][1] = last_measurement[i].deviceid
              /\ last_measurement[i].humidity # KeyMissing
                    => \E j \in 1..Len(humidity_gauge) :
                          humidity_gauge[j][1] = last_measurement[i].deviceid

\* C16: a step of collect() leaves the dict, last_request_time and running as
\* they are and issues no request, wherever the polling threads stand.
C16_CollectOnlyReads ==
    [][readerVars' # readerVars =>
         /\ last_measurement' = last_measurement
         /\ last_request_time' = last_request_time
         /\ running' = running
         /\ latest_request' = latest_request
         /\ \A t \in Threads : pc'[t] = "request" => pc[t] = "request"]_vars

\* a scrape has yielded its two families while a request is in flight
C16_Witness ==
    /\ rpc = "returned"
    /\ Len(yielded) = 2
    /\ \E t \in Threads : pc[t] = "request"

\* C17: Settings(phone_id, sensor_ids) returns an object holding the two
\* arguments as given when neither is empty, and raises ValueError, leaving no
\* object, when phone_id or sensor_ids is empty.
C17_SettingsValidated ==
    (settings.exists \/ settings.raised # "") =>
        IF Len(args.phone_id) > 0 /\ Len(args.sensor_ids) > 0
        THEN /\ settings.exists
             /\ settings.raised = ""
             /\ settings.phone_id = args.phone_id
             /\ settings.sensor_ids = args.sensor_ids
        ELSE /\ ~settings.exists
             /\ settings.raised \in
                    {"ValueError: phone_id needs to be defined in settings",
                     "ValueError: sensor_ids need to be defined in settings"}

\* the constructor has raised for a phone_id with an empty sensor_ids list
C17_Witness ==
    /\ ~settings.exists
    /\ settings.raised # ""
    /\ Len(args.phone_id) > 0
    /\ args.sensor_ids = << >>

\* C18: while requests.post is in flight, last_request_time is the timestamp
\* its iteration took at line 82; and when the iteration has ended with a
\* status other than 200 and 429 or with an exception, last_request_time still
\* is the timestamp of that request, so that the request counts for the pacing.
C18_StampedBeforeRequest ==
    \A t \in Threads :
        /\ pc[t] = "request" =>
              (last_request_time = now[t] /\ latest_request = now[t])
        /\ (pc[t] = "top" /\ logged[t] \in {"status", "unhandled"}) =>
              last_request_time = latest_request

\* a request has been in flight for more than one interval
C18_Witness ==
    \E t \in Threads :
        /\ pc[t] = "request"
        /\ clock > now[t] + interval
        /\ last_request_time = now[t]

\* C19: the started thread does not sleep before its first request, and it
\* leaves the loop without a request only if stop() was called.
C19_FirstRequestAtOnce ==
    latest_request = Unset =>
        \A t \in Threads :
            /\ pc[t] # "sleeping"
            /\ pc[t] = "exited" => since_stop # Unset

\* the first request is in flight at the instant of start()
C19_Witness ==
    \E t \in Threads :
        /\ pc[t] = "request"
        /\ clock = ProcessStart
        /\ running

\* C20: at most one thread is in the polling loop, whatever the order of the
\* start() and stop() calls.
C20_OneLoop ==
    Cardinality({t \in Threads : pc[t] \notin {"unborn", "exited", "crashed"}}) <= 1

====
